---- MODULE Spec2Model ----
(***************************************************************************)
(* Model of pysmt/rewritings/cnf.py: the Tseitin-style CNFizer.            *)
(*                                                                         *)
(* A formula node is the triple <<kind, name, args>>: kind is the node     *)
(* type, name the symbol / constant / function name ("" otherwise) and     *)
(* args the sequence of children.  Nodes are hash-consed by the formula    *)
(* manager, so node identity is equality of triples.                       *)
(*                                                                         *)
(* The result of walking a node is the record [ph, lit, cnf]: ph tells     *)
(* that the result is the THEORY_PLACEHOLDER string, otherwise (lit, cnf)  *)
(* is the pair the handler returns.                                        *)
(*                                                                         *)
(* cnf.py reads types.BOOL in walk_symbol; the model takes `types` to be   *)
(* pysmt.typing, as the handler intends.                                   *)
(***************************************************************************)
EXTENDS Integers, Sequences, FiniteSets, TLC

VARIABLES
    memoization,            \* DagWalker.memoization: node -> walk result
    introduced_variables,   \* CNFizer._introduced_variables: node -> fresh symbol
    fresh_count,            \* number of symbols FreshSymbol has handed out
    formula,                \* argument of the last convert call
    result,                 \* outcome of the last convert call
    first,                  \* history: formula -> outcome of its first convert
    calls                   \* number of convert calls made on the instance

vars == <<memoization, introduced_variables, fresh_count, formula, result, first, calls>>

(***************************************************************************)
(* Bounds                                                                  *)
(***************************************************************************)
MaxCalls == 3       \* convert calls on the one instance (Spec)
MaxArity == 2       \* arguments of an n-ary And / Or (SpecDeep)

(***************************************************************************)
(* Formula manager                                                         *)
(***************************************************************************)
BoolNames == {"a", "b"}
RealNames == {"x"}

Symbol(n) == <<"symbol", n, <<>>>>
MgrTRUE == <<"bool_constant", "true", <<>>>>
MgrFALSE == <<"bool_constant", "false", <<>>>>
RealC(n) == <<"real_constant", n, <<>>>>
IntC(n) == <<"int_constant", n, <<>>>>
MgrNot(f) == <<"not", "", <<f>>>>
And(s) == <<"and", "", s>>
Or(s) == <<"or", "", s>>
Implies(l, r) == <<"implies", "", <<l, r>>>>
Iff(l, r) == <<"iff", "", <<l, r>>>>
Ite(i, t, e) == <<"ite", "", <<i, t, e>>>>
Equals(l, r) == <<"equals", "", <<l, r>>>>
LE(l, r) == <<"le", "", <<l, r>>>>
LT(l, r) == <<"lt", "", <<l, r>>>>
Plus(l, r) == <<"plus", "", <<l, r>>>>
Minus(l, r) == <<"minus", "", <<l, r>>>>
Times(l, r) == <<"times", "", <<l, r>>>>
ToReal(t) == <<"toreal", "", <<t>>>>
Function(n, s) == <<"function", n, s>>
ForAll(v, body) == <<"forall", v, <<body>>>>
Exists(v, body) == <<"exists", v, <<body>>>>

\* mgr.FreshSymbol(): the n-th fresh symbol, Boolean by default, named after n
FreshSymbol(n) == Symbol(ToString(n))

is_true(f) == f = MgrTRUE
is_false(f) == f = MgrFALSE

\* declared type of a symbol / return type of a function symbol
symbol_type(f) == IF f[2] \in RealNames THEN "REAL" ELSE "BOOL"
return_type(f) == IF f[2] = "p" THEN "BOOL" ELSE "REAL"

\* FNode.simplify() on a negation: double negation collapses, a negated
\* constant is the other constant
simplify(f) ==
    IF f[1] # "not" THEN f
    ELSE LET c == f[3][1] IN
         IF is_true(c) THEN MgrFALSE
         ELSE IF is_false(c) THEN MgrTRUE
         ELSE IF c[1] = "not" THEN c[3][1]
         ELSE f

(***************************************************************************)
(* CNFizer constants                                                       *)
(***************************************************************************)
THEORY_PLACEHOLDER == <<"__Placeholder__", "", <<>>>>
TRUE_CNF == {}
FALSE_CNF == {{}}

Placeholder == [ph |-> TRUE, lit |-> THEORY_PLACEHOLDER, cnf |-> TRUE_CNF]
Pair(l, c) == [ph |-> FALSE, lit |-> l, cnf |-> c]

\* what a handler hands back: the walk result (or the exception raised) and the
\* fresh-variable cache and fresh-symbol counter as the handler left them
Return(r, c) == [err |-> "", res |-> r, vars |-> c.vars, n |-> c.n]
Raise(e, c) == [err |-> e, res |-> Placeholder, vars |-> c.vars, n |-> c.n]

\* unpacking `a, c = x` raises ValueError when x is the placeholder string
Unpackable(args) == \A i \in 1..Len(args) : ~args[i].ph
Lits(args) == {args[i].lit : i \in 1..Len(args)}
Cnfs(args) == UNION {args[i].cnf : i \in 1..Len(args)}

(***************************************************************************)
(* CNFizer._key_var                                                        *)
(***************************************************************************)
key_var_reset(f, c) ==
    IF f \in DOMAIN c.vars
    THEN [res |-> c.vars[f], vars |-> c.vars, n |-> c.n]
    ELSE [res |-> FreshSymbol(c.n), vars |-> (f :> FreshSymbol(c.n)), n |-> c.n + 1]

key_var(f, c) ==
    IF f \in DOMAIN c.vars
    THEN [res |-> c.vars[f], vars |-> c.vars, n |-> c.n]
    ELSE [res |-> FreshSymbol(c.n),
          vars |-> c.vars @@ (f :> FreshSymbol(c.n)),
          n |-> c.n + 1]

(***************************************************************************)
(* Handlers                                                                *)
(***************************************************************************)
walk_forall_atom(f, args, c) == Return(Pair(f, TRUE_CNF), c)

walk_forall(f, args, c) == Raise("NotImplementedError", c)

walk_exists(f, args, c) == Raise("NotImplementedError", c)

walk_and(f, args, c) ==
    IF Len(args) = 1 THEN Return(args[1], c)
    ELSE LET kv == key_var(f, c)
             k == kv.res
         IN  IF ~Unpackable(args) THEN Raise("ValueError", kv)
             ELSE Return(Pair(k,
                      {{k} \cup {simplify(MgrNot(a)) : a \in Lits(args)}}
                      \cup {{a, MgrNot(k)} : a \in Lits(args)}
                      \cup Cnfs(args)), kv)

walk_or(f, args, c) ==
    IF Len(args) = 1 THEN Return(args[1], c)
    ELSE LET kv == key_var(f, c)
             k == kv.res
         IN  IF ~Unpackable(args) THEN Raise("ValueError", kv)
             ELSE Return(Pair(k,
                      {{MgrNot(k)} \cup Lits(args)}
                      \cup {{k, MgrNot(a)} : a \in Lits(args)}
                      \cup Cnfs(args)), kv)

walk_not_always_var(f, args, c) ==
    IF ~Unpackable(args) THEN Raise("ValueError", c)
    ELSE LET a == args[1].lit
             kv == key_var(f, c)
             k == kv.res
         IN  Return(Pair(k, args[1].cnf \cup {{MgrNot(k), simplify(MgrNot(a))},
                                               {k, a}}), kv)

walk_not(f, args, c) ==
    IF ~Unpackable(args) THEN Raise("ValueError", c)
    ELSE LET a == args[1].lit IN
         IF is_true(a) THEN Return(Pair(MgrFALSE, TRUE_CNF), c)
         ELSE IF is_false(a) THEN Return(Pair(MgrTRUE, TRUE_CNF), c)
         ELSE LET kv == key_var(f, c)
                  k == kv.res
              IN  Return(Pair(k, args[1].cnf \cup {{MgrNot(k), simplify(MgrNot(a))},
                                                    {k, a}}), kv)

walk_implies_two_sided(f, args, c) ==
    IF ~Unpackable(args) THEN Raise("ValueError", c)
    ELSE LET a == args[1].lit
             b == args[2].lit
             kv == key_var(f, c)
             k == kv.res
             not_a == simplify(MgrNot(a))
             not_b == simplify(MgrNot(b))
         IN  Return(Pair(k, args[1].cnf \cup args[2].cnf
                            \cup {{not_a, b, MgrNot(k)}, {a, k}, {not_b, k}}), kv)

walk_implies(f, args, c) ==
    IF ~Unpackable(args) THEN Raise("ValueError", c)
    ELSE LET a == args[1].lit
             b == args[2].lit
             kv == key_var(f, c)
             k == kv.res
             not_a == simplify(MgrNot(a))
             not_b == simplify(MgrNot(b))
         IN  Return(Pair(k, args[1].cnf \cup args[2].cnf
                            \cup {{not_a, b, k}, {a, k}, {not_b, k}}), kv)

walk_iff(f, args, c) ==
    IF ~Unpackable(args) THEN Raise("ValueError", c)
    ELSE LET a == args[1].lit
             b == args[2].lit
             kv == key_var(f, c)
             k == kv.res
             not_a == simplify(MgrNot(a))
             not_b == simplify(MgrNot(b))
             not_k == MgrNot(k)
         IN  Return(Pair(k, args[1].cnf \cup args[2].cnf
                            \cup {{not_a, not_b, k}, {not_a, b, not_k},
                                  {a, not_b, not_k}, {a, b, k}}), kv)

walk_symbol_any_type(f, args, c) == Return(Pair(f, TRUE_CNF), c)

walk_symbol(f, args, c) ==
    IF symbol_type(f) = "BOOL" THEN Return(Pair(f, TRUE_CNF), c)
    ELSE Return(Placeholder, c)

walk_function(f, args, c) ==
    IF return_type(f) = "BOOL" THEN Return(Pair(f, TRUE_CNF), c)
    ELSE Return(Placeholder, c)

walk_real_constant(f, args, c) == Return(Placeholder, c)

walk_bool_constant(f, args, c) ==
    IF is_true(f) THEN Return(Pair(f, TRUE_CNF), c)
    ELSE Return(Pair(f, TRUE_CNF), c)

walk_int_constant(f, args, c) == Return(Placeholder, c)

walk_plus(f, args, c) == Return(Placeholder, c)

walk_minus(f, args, c) == Return(Placeholder, c)

walk_times(f, args, c) == Return(Placeholder, c)

walk_equals(f, args, c) ==
    IF \A i \in 1..Len(args) : args[i].ph THEN Return(Pair(f, TRUE_CNF), c)
    ELSE Raise("AssertionError", c)

walk_le(f, args, c) ==
    IF \A i \in 1..Len(args) : args[i].ph THEN Return(Pair(f, TRUE_CNF), c)
    ELSE Raise("AssertionError", c)

walk_lt(f, args, c) ==
    IF \A i \in 1..Len(args) : args[i].ph THEN Return(Pair(f, TRUE_CNF), c)
    ELSE Raise("AssertionError", c)

walk_ite(f, args, c) ==
    IF \E i \in 1..Len(args) : args[i].ph THEN Return(Placeholder, c)
    ELSE LET i == args[1].lit
             t == args[2].lit
             e == args[3].lit
             kv == key_var(f, c)
             k == kv.res
             not_i == simplify(MgrNot(i))
             not_t == simplify(MgrNot(t))
             not_e == simplify(MgrNot(e))
             not_k == MgrNot(k)
         IN  Return(Pair(k, args[1].cnf \cup args[2].cnf \cup args[3].cnf
                            \cup {{not_i, not_t, k}, {not_i, t, not_k},
                                  {i, not_e, k}, {i, e, not_k}}), kv)

walk_toreal(f, args, c) == Return(Placeholder, c)

(***************************************************************************)
(* DagWalker: post-order walk with memoization kept on the instance        *)
(***************************************************************************)
\* dispatch on the node type
Handle(f, args, c) ==
    CASE f[1] = "forall" -> walk_forall(f, args, c)
      [] f[1] = "exists" -> walk_exists(f, args, c)
      [] f[1] = "and" -> walk_and(f, args, c)
      [] f[1] = "or" -> walk_or(f, args, c)
      [] f[1] = "not" -> walk_not(f, args, c)
      [] f[1] = "implies" -> walk_implies(f, args, c)
      [] f[1] = "iff" -> walk_iff(f, args, c)
      [] f[1] = "symbol" -> walk_symbol(f, args, c)
      [] f[1] = "function" -> walk_function(f, args, c)
      [] f[1] = "real_constant" -> walk_real_constant(f, args, c)
      [] f[1] = "bool_constant" -> walk_bool_constant(f, args, c)
      [] f[1] = "int_constant" -> walk_int_constant(f, args, c)
      [] f[1] = "plus" -> walk_plus(f, args, c)
      [] f[1] = "minus" -> walk_minus(f, args, c)
      [] f[1] = "times" -> walk_times(f, args, c)
      [] f[1] = "equals" -> walk_equals(f, args, c)
      [] f[1] = "le" -> walk_le(f, args, c)
      [] f[1] = "lt" -> walk_lt(f, args, c)
      [] f[1] = "ite" -> walk_ite(f, args, c)
      [] f[1] = "toreal" -> walk_toreal(f, args, c)

RECURSIVE walk(_, _), walk_children(_, _, _)

\* st = [memo, vars, n, err]: err is the exception in flight, "" when none
walk(f, st) ==
    IF st.err # "" \/ f \in DOMAIN st.memo THEN st
    ELSE LET s1 == walk_children(f[3], 1, st) IN
         IF s1.err # "" THEN s1
         ELSE LET args == [i \in 1..Len(f[3]) |-> s1.memo[f[3][i]]]
                  h == Handle(f, args, [vars |-> s1.vars, n |-> s1.n])
              IN  [memo |-> IF h.err = "" THEN s1.memo @@ (f :> h.res) ELSE s1.memo,
                   vars |-> h.vars, n |-> h.n, err |-> h.err]

walk_children(s, i, st) ==
    IF i > Len(s) THEN st ELSE walk_children(s, i + 1, walk(s[i], st))

(***************************************************************************)
(* CNFizer.convert                                                         *)
(***************************************************************************)
Outcome(status, cnf) == [status |-> status, cnf |-> cnf]

\* the clause loop of convert over the pair (tl, cnf) that walk returned
Clauses(tl, cnf) ==
    IF {} \in cnf THEN FALSE_CNF
    ELSE {{tl}} \cup
         {{lit \in clause : ~is_false(lit)} :
             clause \in {cl \in cnf : /\ \A lit \in cl : ~is_true(lit)
                                      /\ \E lit \in cl : ~is_false(lit)}}

\* a convert that starts every call from empty caches
convert_forgetful(f, inst) ==
    LET st == walk(f, [memo |-> <<>>, vars |-> <<>>, n |-> inst.n, err |-> ""])
        out == IF st.err # "" THEN Outcome(st.err, {})
               ELSE IF st.memo[f].ph THEN Outcome("ValueError", {})
               ELSE Outcome("ok", Clauses(st.memo[f].lit, st.memo[f].cnf))
    IN  [memo |-> st.memo, vars |-> st.vars, n |-> st.n, out |-> out]

\* inst = [memo, vars, n]; the instance after the call and the call's outcome
convert(f, inst) ==
    LET st == walk(f, [memo |-> inst.memo, vars |-> inst.vars, n |-> inst.n, err |-> ""])
        out == IF st.err # "" THEN Outcome(st.err, {})
               ELSE IF st.memo[f].ph THEN Outcome("ValueError", {})
               ELSE Outcome("ok", Clauses(st.memo[f].lit, st.memo[f].cnf))
    IN  [memo |-> st.memo, vars |-> st.vars, n |-> st.n, out |-> out]

(***************************************************************************)
(* Input formulas                                                          *)
(***************************************************************************)
a == Symbol("a")
b == Symbol("b")
x == Symbol("x")
Shared == Or(<<a, b>>)
Px == Function("p", <<x>>)

\* theory terms and the Boolean atoms over them
Terms == {x, RealC("1"), Plus(x, RealC("1")), Minus(x, RealC("1")), Times(x, x),
          ToReal(IntC("2")), Function("f", <<x>>), Ite(a, x, RealC("1"))}
TheoryAtoms == {LE(x, RealC("1")), Px,
                Equals(Ite(a, x, RealC("1")), Plus(x, RealC("1"))),
                LT(Function("f", <<x>>), Minus(x, RealC("1"))),
                LE(Times(x, x), ToReal(IntC("2")))}
Quantified == {ForAll("x", Px), Exists("x", Px)}

\* every connective once over a set of operands
NAry(S) == UNION {[1..n -> S] : n \in 1..MaxArity}
Connectives(S) ==
    {MgrNot(f) : f \in S}
    \cup {And(s) : s \in NAry(S)} \cup {Or(s) : s \in NAry(S)}
    \cup {Implies(l, r) : l, r \in S} \cup {Iff(l, r) : l, r \in S}
Binary(S) ==
    {MgrNot(f) : f \in S}
    \cup {And(<<l, r>>) : l, r \in S} \cup {Or(<<l, r>>) : l, r \in S}
    \cup {Implies(l, r) : l, r \in S} \cup {Iff(l, r) : l, r \in S}

\* Spec: a small pool with a shared subformula, converted again and again
Operands == {a, Shared}
Formulas ==
    Operands \cup {MgrNot(f) : f \in Operands}
    \cup {And(<<l, r>>) : l, r \in Operands}
    \cup {Implies(l, r) : l, r \in {a, b, Shared}}
    \cup {Ite(Shared, a, b), MgrTRUE}
    \cup {ForAll("x", Px), MgrNot(ForAll("x", Px)), And(<<Shared, Exists("x", Px)>>)}

\* SpecDeep: one conversion of a formula of depth up to two
Atoms == {a, b, MgrTRUE, MgrFALSE}
Level1 == Connectives(Atoms \cup {Px} \cup Quantified)
          \cup {Ite(i, t, e) : i, t, e \in Atoms}
Core == Atoms \cup Binary(Atoms) \cup {LE(x, RealC("1")), ForAll("x", Px)}
DeepFormulas ==
    Atoms \cup Terms \cup TheoryAtoms \cup Quantified \cup Level1
    \cup Binary(Core)
    \cup {And(<<l, m, r>>) : l \in {a}, m \in Binary({b}), r \in Binary({a, b})}
    \cup {Ite(i, t, e) : i \in Binary({a, b}), t \in {a, MgrFALSE}, e \in {b, MgrNot(a)}}

(***************************************************************************)
(* The instance as a state machine                                         *)
(***************************************************************************)
NoFormula == <<"none", "", <<>>>>

\* CNFizer.__init__ on a new environment
Init ==
    /\ memoization = <<>>
    /\ introduced_variables = <<>>
    /\ fresh_count = 0
    /\ formula = NoFormula
    /\ result = Outcome("none", {})
    /\ first = <<>>
    /\ calls = 0

\* one call cnfizer.convert(f)
Convert(f) ==
    LET r == convert(f, [memo |-> memoization, vars |-> introduced_variables,
                         n |-> fresh_count])
    IN  /\ memoization' = r.memo
        /\ introduced_variables' = r.vars
        /\ fresh_count' = r.n
        /\ formula' = f
        /\ result' = r.out
        /\ first' = IF f \in DOMAIN first THEN first ELSE first @@ (f :> r.out)
        /\ calls' = calls + 1

Next == calls < MaxCalls /\ \E f \in Formulas : Convert(f)

Spec == Init /\ [][Next]_vars

NextDeep == calls = 0 /\ \E f \in DeepFormulas : Convert(f)

SpecDeep == Init /\ [][NextDeep]_vars

(***************************************************************************)
(* Semantics of pure Boolean formulas and of clause sets                   *)
(***************************************************************************)
RECURSIVE PureBoolean(_), Eval(_, _), Nodes(_)

PureBoolean(f) ==
    CASE f[1] = "symbol" -> symbol_type(f) = "BOOL"
      [] f[1] = "bool_constant" -> TRUE
      [] f[1] \in {"not", "and", "or", "implies", "iff", "ite"} ->
            \A i \in 1..Len(f[3]) : PureBoolean(f[3][i])
      [] OTHER -> FALSE

\* truth of f when exactly the symbols of tv are true
Eval(f, tv) ==
    CASE f[1] = "symbol" -> f \in tv
      [] f[1] = "bool_constant" -> is_true(f)
      [] f[1] = "not" -> ~Eval(f[3][1], tv)
      [] f[1] = "and" -> \A i \in 1..Len(f[3]) : Eval(f[3][i], tv)
      [] f[1] = "or" -> \E i \in 1..Len(f[3]) : Eval(f[3][i], tv)
      [] f[1] = "implies" -> Eval(f[3][1], tv) => Eval(f[3][2], tv)
      [] f[1] = "iff" -> Eval(f[3][1], tv) <=> Eval(f[3][2], tv)
      [] f[1] = "ite" -> IF Eval(f[3][1], tv) THEN Eval(f[3][2], tv)
                                             ELSE Eval(f[3][3], tv)
      [] OTHER -> FALSE

\* the node and everything below it
Nodes(f) == {f} \cup UNION {Nodes(f[3][i]) : i \in 1..Len(f[3])}

SymbolsOf(cnf) == {n \in UNION {Nodes(lit) : lit \in UNION cnf} : n[1] = "symbol"}
Satisfiable(f) == \E tv \in SUBSET {Symbol(n) : n \in BoolNames} : Eval(f, tv)
SatisfiableCNF(cnf) ==
    \E tv \in SUBSET SymbolsOf(cnf) : \A clause \in cnf : \E lit \in clause : Eval(lit, tv)

Returned == result.status = "ok"
Quantifiers == {"forall", "exists"}
Compound == {"not", "and", "or", "implies", "iff", "ite"}

(***************************************************************************)
(* Claims                                                                  *)
(***************************************************************************)

\* C1: a pure Boolean formula is satisfiable iff the clause set convert
\* returns for it is satisfiable, the fresh variables being free to choose.
C1_Equisatisfiable ==
    PureBoolean(formula) =>
        /\ Returned
        /\ Satisfiable(formula) <=> SatisfiableCNF(result.cnf)

\* C2: convert(TRUE) is exactly TRUE_CNF = {} and convert(FALSE) is exactly
\* FALSE_CNF = {{}}.
C2_CanonicalConstants ==
    /\ formula = MgrTRUE => Returned /\ result.cnf = TRUE_CNF
    /\ formula = MgrFALSE => Returned /\ result.cnf = FALSE_CNF

\* C3: whenever convert returns, every literal of every clause is a Boolean
\* atom (Boolean symbol, Boolean constant, Boolean function application,
\* Equals/Le/Lt, fresh variable) or the negation of one, and never the
\* THEORY_PLACEHOLDER.
BooleanAtom(n) ==
    \/ n[1] = "symbol" /\ symbol_type(n) = "BOOL"
    \/ n[1] = "bool_constant"
    \/ n[1] = "function" /\ return_type(n) = "BOOL"
    \/ n[1] \in {"equals", "le", "lt"}
BooleanLiteral(lit) == BooleanAtom(lit) \/ (lit[1] = "not" /\ BooleanAtom(lit[3][1]))
C3_ClausesWellFormed ==
    Returned => \A clause \in result.cnf : \A lit \in clause :
                    BooleanLiteral(lit) /\ lit # THEORY_PLACEHOLDER
C3_Witness ==
    /\ Returned
    /\ formula[1] \in Compound
    /\ \E clause \in result.cnf : MgrNot(LE(x, RealC("1"))) \in clause

\* C4: across convert calls an entry of the fresh-variable cache is never
\* changed or removed, every fresh symbol handed out belongs to exactly one
\* new compound node, and distinct nodes have distinct variables.
C4_FreshVariablesStable ==
    [][/\ \A n \in DOMAIN introduced_variables :
              /\ n \in DOMAIN introduced_variables'
              /\ introduced_variables'[n] = introduced_variables[n]
       /\ fresh_count' - fresh_count =
              Cardinality(DOMAIN introduced_variables' \ DOMAIN introduced_variables)
       /\ \A n \in DOMAIN introduced_variables' : n[1] \in Compound
       /\ \A n, m \in DOMAIN introduced_variables' :
              introduced_variables'[n] = introduced_variables'[m] => n = m]_vars
C4_Witness ==
    /\ calls = 2
    /\ MgrNot(Shared) \in DOMAIN first
    /\ formula = And(<<Shared, a>>)
    /\ Returned
    /\ introduced_variables[Shared] = FreshSymbol(0)
    /\ {introduced_variables[Shared], MgrNot(introduced_variables[formula])} \in result.cnf

C7_NoConstantLiterals ==
    (Returned /\ result.cnf # FALSE_CNF) =>
        \A clause \in result.cnf : \A lit \in clause : ~is_true(lit) /\ ~is_false(lit)

\* C8: if a clause of the candidate set {{topLiteral}} \cup cnf is empty, or
\* is left empty once its constant FALSE literals are pruned, convert returns
\* exactly FALSE_CNF.
Candidate == {{memoization[formula].lit}} \cup memoization[formula].cnf
C8_CollapseToFalse ==
    (Returned /\ \E clause \in Candidate : \A lit \in clause : is_false(lit)) =>
        result.cnf = FALSE_CNF

\* C9 (as amended): a Not whose child literal is the constant TRUE yields the
\* literal FALSE with no clauses and no fresh variable, a constant FALSE child
\* yields the literal TRUE likewise, and any other child a yields the node's
\* variable k with cnf_a \cup {{~k, ~a}, {k, a}}.
NotNodes == {n \in DOMAIN memoization : n[1] = "not" /\ ~memoization[n[3][1]].ph}
C9_NotOverConstant ==
    \A n \in NotNodes :
        LET child == memoization[n[3][1]] IN
        IF is_true(child.lit)
        THEN memoization[n] = Pair(MgrFALSE, TRUE_CNF) /\ n \notin DOMAIN introduced_variables
        ELSE IF is_false(child.lit)
        THEN memoization[n] = Pair(MgrTRUE, TRUE_CNF) /\ n \notin DOMAIN introduced_variables
        ELSE /\ n \in DOMAIN introduced_variables
             /\ LET k == introduced_variables[n] IN
                memoization[n] = Pair(k, child.cnf \cup
                                         {{MgrNot(k), simplify(MgrNot(child.lit))},
                                          {k, child.lit}})
C9_Witness ==
    /\ formula = MgrNot(MgrNot(MgrTRUE))
    /\ NotNodes = {formula, MgrNot(MgrTRUE)}
    /\ memoization[MgrNot(MgrTRUE)].lit = MgrFALSE
    /\ memoization[formula].lit = MgrTRUE
    /\ fresh_count = 0

\* C9 (as claimed): a Not whose child literal is the constant TRUE yields the
\* literal TRUE, and dually a constant FALSE child the literal FALSE, in both
\* cases with no clauses and no fresh variable.
C9_Original ==
    \A n \in NotNodes :
        LET child == memoization[n[3][1]] IN
        /\ is_true(child.lit) =>
              memoization[n] = Pair(MgrTRUE, TRUE_CNF) /\ n \notin DOMAIN introduced_variables
        /\ is_false(child.lit) =>
              memoization[n] = Pair(MgrFALSE, TRUE_CNF) /\ n \notin DOMAIN introduced_variables

\* C10: converting a formula again on the same instance gives the outcome of
\* its first conversion and hands out no fresh symbol, whatever was converted
\* in between.
C10_RepeatedConversion ==
    [][formula' \in DOMAIN first =>
          result' = first[formula'] /\ fresh_count' = fresh_count]_vars
C10_Witness ==
    /\ calls = 3
    /\ formula = Shared
    /\ DOMAIN first = {Shared, MgrNot(a)}
    /\ introduced_variables[Shared] = FreshSymbol(0)
    /\ introduced_variables[MgrNot(a)] = FreshSymbol(1)
    /\ Returned

====
